---- MODULE Spec2Model ----
(***************************************************************************)
(* Hirschberg-Sinclair leader election on a ring of Pyro4 processes.       *)
(*                                                                         *)
(* The orchestrator run_hirschberg_sinclair_algorithm creates the nodes,   *)
(* wires them, starts them, polls the node with the largest id and then    *)
(* collects the traces.  Every call between processes that the source      *)
(* marks @Pyro4.oneway (add_neighbour, start, stop, receive_out,           *)
(* receive_in) returns to the caller at once and is executed by the        *)
(* daemon in a thread of its own: a call in flight is an element of the    *)
(* bag calls, and calls are taken from it in any order.  Handlers that     *)
(* only relay run as one step; the branch of receive_in that updates       *)
(* counter, l and _elected is a thread whose reads and writes of these     *)
(* fields are separate steps, because several such threads may run on one  *)
(* node at the same time.                                                  *)
(*                                                                         *)
(* Next is the program under every schedule.  Its state space is too large *)
(* to enumerate for a ring of three, so each specification below fixes a   *)
(* part of the schedule; every behaviour of each of them is a behaviour of *)
(* Next (SpecRestart and SpecDirectory add a client of the exposed         *)
(* methods):                                                               *)
(*   Spec          executes the add_neighbour calls in the order they were *)
(*                 made and before the start loop, and the stop calls in   *)
(*                 the order they were made; start, the messages and the   *)
(*                 threads are scheduled freely;                           *)
(*   SpecOneway    schedules add_neighbour and start freely and executes   *)
(*                 the messages one at a time;                             *)
(*   SpecLockstep  executes every call one at a time, in a fixed order, on *)
(*                 small rings with any ids drawn, on a ring of four and   *)
(*                 on a ring of nine;                                      *)
(*   SpecRace      the same order of calls on a ring of four, with the     *)
(*                 threads of receive_in scheduled freely;                 *)
(*   SpecRestart   the fixed order on a ring of three, with a second start *)
(*                 call;                                                   *)
(*   SpecLateWiring  the ring of four in lockstep, with the add_neighbour  *)
(*                 calls executed at any time;                             *)
(*   SpecDirectory the daemons and a client that registers processes with  *)
(*                 the name server.                                        *)
(***************************************************************************)
EXTENDS Integers, Sequences, FiniteSets, Bags, TLC

\* Largest ring size explored by Spec and SpecOneway.
MaxNodes == 3
\* Largest election id drawn; the program draws from 1 .. number_of_nodes^4 - 1.
MaxId == 3
\* Number of extra start calls the client of SpecRestart makes.
MaxRestarts == 1
\* Number of processes the client of SpecDirectory registers.
MaxObjects == 3

VARIABLES
    number_of_nodes,  \* argument of run_hirschberg_sinclair_algorithm
    ids,              \* ids[name]: the random election ids
    pc,               \* position of the orchestrator
    idx,              \* loop index of the orchestrator
    nsUp,             \* the name-server daemon is running
    daemonUp,         \* the node daemon is running
    l,                \* l[name]: round of the node
    counter,          \* counter[name]; -1 while the attribute does not exist
    elected,          \* _elected[name]
    neighbours,       \* _neighbours[name], a sequence of names
    data,             \* _data[name], the trace of the node (see add_data)
    killed,           \* _killed[name]: "unset", "no" or "yes"
    calls,            \* bag of oneway calls sent and not yet executed
    threads,          \* bag of receive_in threads inside the own-id branch
    df,               \* the merged trace of the orchestrator
    objects,          \* objects[o]: the Process registered o-th with the daemon
    ns                \* the table of the name server: key -> object

vars == <<number_of_nodes, ids, pc, idx, nsUp, daemonUp, l, counter, elected,
          neighbours, data, killed, calls, threads, df, objects, ns>>

dirVars == <<objects, ns>>
orchVars == <<number_of_nodes, ids, pc, idx, nsUp, daemonUp, df, objects, ns>>
nodeVars == <<l, counter, elected, neighbours, data, killed>>

Names == 0 .. (number_of_nodes - 1)

Min(a, b) == IF a < b THEN a ELSE b

Range(s) == {s[k] : k \in DOMAIN s}

\* The bag holding the elements of sequence s, each as often as it occurs.
BagOfSeq(s) == [m \in Range(s) |-> Cardinality({k \in DOMAIN s : s[k] = m})]

One(m) == SetToBag({m})

----------------------------------------------------------------------------
(* Calls and trace rows *)

Call(op, to, nid, h, sender) ==
    [op |-> op, to |-> to, nid |-> nid, h |-> h, sender |-> sender]

State == {"IDLE", "SEND_OUT", "SEND_IN", "RECEIVE_OUT", "RECEIVE_IN", "SELECTED"}

\* The trace of a node is kept as what the properties read of it: how many
\* rows of each state it holds, the round of its latest row, and whether the
\* rounds of its rows are non-decreasing in the order they were appended.
NoData == [count |-> [s \in State |-> 0], last |-> 0, sorted |-> TRUE]

\* add_data: append a row (name, id, self.l, clock, state).
add_data(d, round, st) ==
    [count |-> [d.count EXCEPT ![st] = @ + 1],
     last |-> round,
     sorted |-> d.sorted /\ d.last <= round]

Rows(d) ==
    d.count["IDLE"] + d.count["SEND_OUT"] + d.count["SEND_IN"]
    + d.count["RECEIVE_OUT"] + d.count["RECEIVE_IN"] + d.count["SELECTED"]

\* A call is transmitted only while the daemon that serves the target runs.
Sent(rest, new) == IF daemonUp THEN rest (+) new ELSE rest

\* other_neighbour: the first neighbour that differs from the sender; the
\* loop variable keeps the last neighbour when none differs.
other_neighbour(nbs, sender) ==
    IF \E k \in DOMAIN nbs : nbs[k] # sender
    THEN nbs[CHOOSE k \in DOMAIN nbs :
                /\ nbs[k] # sender
                /\ \A j \in DOMAIN nbs : nbs[j] # sender => k <= j]
    ELSE nbs[Len(nbs)]

\* h = h - self.l in receive_out.
HopsLeft(h, round) == h - round

\* The test of receive_in with the exponent one too large.
CoversRingEarly(round) == 2 ^ (round + 1) + 1 >= number_of_nodes

\* 2**self.l + 1 >= self.number_of_nodes in receive_in.
CoversRing(round) == 2 ^ round + 1 >= number_of_nodes

\* The hop budget of a new round: 2 ** (self.l - 1).
Reach(round) == 2 ^ (round - 1)

\* np.where(ids == max_value)[0][0]: the first name that holds the maximum.
MaxIdx ==
    CHOOSE i \in Names :
        /\ \A j \in Names : ids[j] <= ids[i]
        /\ \A j \in Names : ids[j] = ids[i] => i <= j

\* right = idx - 1 (a negative index counts from the end of the list).
Right(i) == IF i - 1 < 0 THEN number_of_nodes + (i - 1) ELSE i - 1
\* left = idx + 1, wrapped to 0.
Left(i) == IF i + 1 >= number_of_nodes THEN 0 ELSE i + 1

----------------------------------------------------------------------------
(* The name server *)

\* A Python value used as the name of a process: its type and str() of it.
\* The orchestrator names its processes 0, 1, ...; the test names one 'p1'.
PyInt(k) == [type |-> "int", text |-> ToString(k)]
PyStr(t) == [type |-> "str", text |-> t]

\* str(v)
str(v) == v.text

\* Process.__init__(name, prefix)
Process(name, prefix) == [name |-> name, prefix |-> prefix]

\* The default of the parameter prefix.
DefaultPrefix == "sample"

\* A key built with another separator than register uses.
LookupKeyDash(prefix, name) == prefix \o "-" \o str(name)

\* f"{self._prefix}.{name}" in Process.lookup
LookupKey(prefix, name) == prefix \o "." \o str(name)

\* str(self._prefix) + "." + str(self._name) in Process.register
RegisterKey(p) == p.prefix \o "." \o str(p.name)

\* ns.register(key, uri): key is bound to object o, whatever it was bound to.
Bound(table, key, o) ==
    [k \in DOMAIN table \cup {key} |-> IF k = key THEN o ELSE table[k]]

\* What a lookup of an unregistered key gives (ns.lookup raises NamingError).
NotFound == -1

\* Process.lookup: the object the name server binds to the key.
lookup(prefix, name) ==
    IF LookupKey(prefix, name) \in DOMAIN ns
    THEN ns[LookupKey(prefix, name)] ELSE NotFound

\* Process.register: daemon.register gives the object the next object id,
\* ns.register binds its key to it.
register(p) ==
    LET o == Cardinality(DOMAIN objects) IN
    /\ objects' = [q \in DOMAIN objects \cup {o} |->
                        IF q = o THEN p ELSE objects[q]]
    /\ ns' = Bound(ns, RegisterKey(p), o)

\* The table after the first k objects of objs have been registered in turn.
RECURSIVE Registered(_, _)
Registered(objs, k) ==
    IF k = 0 THEN << >>
    ELSE Bound(Registered(objs, k - 1), RegisterKey(objs[k - 1]), k - 1)

\* proxies[name] = Pyro4.Proxy(ns.lookup(f"sample.{name}"))
proxies == [k \in Names |-> lookup(DefaultPrefix, PyInt(k))]

----------------------------------------------------------------------------
\* The state when run_hirschberg_sinclair_algorithm is entered with a node
\* count among sizes.
Entered(sizes) ==
    /\ number_of_nodes \in sizes
    /\ ids = << >>
    /\ pc = "boot"
    /\ idx = 0
    /\ nsUp = FALSE
    /\ daemonUp = FALSE
    /\ l = << >>
    /\ counter = << >>
    /\ elected = << >>
    /\ neighbours = << >>
    /\ data = << >>
    /\ killed = << >>
    /\ calls = EmptyBag
    /\ threads = EmptyBag
    /\ df = << >>
    /\ objects = << >>
    /\ ns = << >>

Init == Entered(0 .. MaxNodes)

----------------------------------------------------------------------------
(* The orchestrator: run_hirschberg_sinclair_algorithm *)

\* start_name_server() and Pyro4.Daemon(), both before the try statement.
\* Pyro4.Daemon() binds a socket and may raise: the error then leaves the
\* function with the name server running and no node daemon created.
OrchBoot ==
    /\ pc = "boot"
    /\ nsUp' = TRUE
    /\ \E bound \in BOOLEAN :
          /\ daemonUp' = bound
          /\ pc' = IF bound THEN "genids" ELSE "raised"
    /\ UNCHANGED <<number_of_nodes, ids, idx, df, calls, threads>>
    /\ UNCHANGED nodeVars
    /\ UNCHANGED dirVars

\* The lists np.random.randint can produce for a ring of n nodes.
Draws(n) == [0 .. (n - 1) -> 1 .. Min(n ^ 4 - 1, MaxId)]

\* The lists among them whose ids are pairwise distinct.
DistinctDraws(n) ==
    {d \in Draws(n) : \A i, j \in DOMAIN d : i # j => d[i] # d[j]}

\* ids = [np.random.randint(1, number_of_nodes**4) for _ in range(n)]
\* with the list drawn from the set drawn: randint raises ValueError when
\* the range 1 .. n^4 - 1 is empty.
GenIds(drawn) ==
    /\ pc = "genids"
    /\ IF number_of_nodes >= 1 /\ number_of_nodes ^ 4 <= 1
       THEN /\ pc' = "except"
            /\ ids' = ids
       ELSE /\ ids' \in drawn
            /\ pc' = "create"
    /\ UNCHANGED <<number_of_nodes, idx, nsUp, daemonUp, df, calls, threads>>
    /\ UNCHANGED nodeVars
    /\ UNCHANGED dirVars

OrchGenIds == GenIds(Draws(number_of_nodes))

\* The loop that constructs and registers the processes, then start_daemon.
OrchCreate ==
    /\ pc = "create"
    /\ l' = [i \in Names |-> 0]
    /\ counter' = [i \in Names |-> -1]
    /\ elected' = [i \in Names |-> FALSE]
    /\ neighbours' = [i \in Names |-> << >>]
    /\ data' = [i \in Names |-> NoData]
    /\ killed' = [i \in Names |-> "unset"]
    /\ LET objs == [i \in Names |-> Process(PyInt(i), DefaultPrefix)] IN
        /\ objects' = objs
        /\ ns' = Registered(objs, number_of_nodes)
    /\ pc' = "wire"
    /\ idx' = 0
    /\ UNCHANGED <<number_of_nodes, ids, nsUp, daemonUp, df, calls, threads>>

\* The calls of one iteration of the wiring loop, in the order they are made.
WireCalls(i) ==
    <<Call("add_neighbour", proxies[i], 0, 0, proxies[Right(i)]),
      Call("add_neighbour", proxies[i], 0, 0, proxies[Left(i)])>>

RECURSIVE AllWireCalls(_)
AllWireCalls(k) ==
    IF k = 0 THEN << >> ELSE AllWireCalls(k - 1) \o WireCalls(k - 1)

\* The wiring loop: two oneway add_neighbour calls for every proxy.  The
\* calls return at once, so the loop is one step and the calls it leaves
\* in flight are executed in any order.
OrchWire ==
    /\ pc = "wire"
    /\ calls' = Sent(calls, BagOfSeq(AllWireCalls(number_of_nodes)))
    /\ pc' = "start"
    /\ UNCHANGED <<number_of_nodes, ids, idx, nsUp, daemonUp, df, threads>>
    /\ UNCHANGED nodeVars
    /\ UNCHANGED dirVars

\* The start loop: a oneway start call for every proxy.
OrchStart ==
    /\ pc = "start"
    /\ calls' = Sent(calls,
            BagOfSeq([k \in 1 .. number_of_nodes |->
                        Call("start", proxies[k - 1], 0, 0, -1)]))
    /\ pc' = "findmax"
    /\ UNCHANGED <<number_of_nodes, ids, idx, nsUp, daemonUp, df, threads>>
    /\ UNCHANGED nodeVars
    /\ UNCHANGED dirVars

\* max_value = np.max(ids) raises ValueError on an empty list.
OrchFindMax ==
    /\ pc = "findmax"
    /\ pc' = IF number_of_nodes <= 0 THEN "except" ELSE "poll"
    /\ UNCHANGED <<number_of_nodes, ids, idx, nsUp, daemonUp, df, calls, threads>>
    /\ UNCHANGED nodeVars
    /\ UNCHANGED dirVars

\* while True: if proxy.elected: break -- the poll that finds the flag set.
OrchPoll ==
    /\ pc = "poll"
    /\ elected[proxies[MaxIdx]]
    /\ pc' = "collect"
    /\ idx' = 0
    /\ UNCHANGED <<number_of_nodes, ids, nsUp, daemonUp, df, calls, threads>>
    /\ UNCHANGED nodeVars
    /\ UNCHANGED dirVars

\* What df keeps of pd.DataFrame(proxy.data): the name and the number of
\* SELECTED rows the trace held when it was read.
Collected(i) == [name |-> i, selected |-> data[i].count["SELECTED"]]

\* One iteration of the shutdown loop: read proxy.data, then oneway stop.
OrchCollect ==
    /\ pc = "collect"
    /\ IF idx < number_of_nodes
       THEN /\ df' = Append(df, Collected(proxies[idx]))
            /\ calls' = Sent(calls, One(Call("stop", proxies[idx], 0, 0, -1)))
            /\ idx' = idx + 1
            /\ pc' = pc
       ELSE /\ pc' = "shutdown"
            /\ UNCHANGED <<df, calls, idx>>
    /\ UNCHANGED <<number_of_nodes, ids, nsUp, daemonUp, threads>>
    /\ UNCHANGED nodeVars
    /\ UNCHANGED dirVars

\* daemon.shutdown(), nameserverDaemon.shutdown(), sort_values, return df.
\* Sorting permutes the rows of df, which leaves what df records of each
\* collected trace as it is.
OrchShutdown ==
    /\ pc = "shutdown"
    /\ daemonUp' = FALSE
    /\ nsUp' = FALSE
    /\ df' = df
    /\ pc' = "done"
    /\ UNCHANGED <<number_of_nodes, ids, idx, calls, threads>>
    /\ UNCHANGED nodeVars
    /\ UNCHANGED dirVars

\* except Exception: shut both daemons down and raise again.
OrchExcept ==
    /\ pc = "except"
    /\ daemonUp' = FALSE
    /\ nsUp' = FALSE
    /\ pc' = "raised"
    /\ UNCHANGED <<number_of_nodes, ids, idx, df, calls, threads>>
    /\ UNCHANGED nodeVars
    /\ UNCHANGED dirVars

----------------------------------------------------------------------------
(* The handlers of a process *)

\* Process.add_neighbour
add_neighbour(m) ==
    /\ m.op = "add_neighbour"
    /\ daemonUp
    /\ neighbours' = [neighbours EXCEPT ![m.to] = Append(@, m.sender)]
    /\ calls' = calls (-) One(m)
    /\ UNCHANGED <<l, counter, elected, data, killed, threads>>
    /\ UNCHANGED orchVars

\* The calls of send_out(nid, h, targets) made by node i.
OutCalls(i, nid, h, targets) ==
    BagOfSeq([k \in DOMAIN targets |-> Call("receive_out", targets[k], nid, h, i)])

\* Process.start followed by Hirschberg.run in the thread it creates.
start(m) ==
    /\ m.op = "start"
    /\ daemonUp
    /\ LET i == m.to IN
        /\ killed' = [killed EXCEPT ![i] = "no"]
        /\ l' = [l EXCEPT ![i] = 1]
        /\ counter' = [counter EXCEPT ![i] = 0]
        /\ data' = [data EXCEPT ![i] = add_data(add_data(@, 1, "IDLE"), 1, "SEND_OUT")]
        /\ calls' = Sent(calls (-) One(m), OutCalls(i, ids[i], 1, neighbours[i]))
    /\ UNCHANGED <<elected, neighbours, threads>>
    /\ UNCHANGED orchVars

\* Process.stop
stop(m) ==
    /\ m.op = "stop"
    /\ daemonUp
    /\ killed' = [killed EXCEPT ![m.to] = "yes"]
    /\ calls' = calls (-) One(m)
    /\ UNCHANGED <<l, counter, elected, neighbours, data, threads>>
    /\ UNCHANGED orchVars

\* A receive_out that answers every probe with an In, whatever id it carries.
receive_out_echo(m) ==
    /\ m.op = "receive_out"
    /\ daemonUp
    /\ data' = [data EXCEPT ![m.to] =
                    add_data(add_data(@, l[m.to], "RECEIVE_OUT"), l[m.to], "SEND_IN")]
    /\ calls' = Sent(calls (-) One(m),
                     One(Call("receive_in", m.sender, m.nid, 0, m.to)))
    /\ UNCHANGED <<l, counter, elected, neighbours, killed, threads>>
    /\ UNCHANGED orchVars

\* Hirschberg.receive_out
receive_out(m) ==
    /\ m.op = "receive_out"
    /\ daemonUp
    /\ LET i == m.to
           h == HopsLeft(m.h, l[i])
           rest == calls (-) One(m)
       IN IF m.nid > ids[i]
          THEN IF h > 0
               THEN IF neighbours[i] = << >>
                    THEN \* other_neighbour raises: the thread ends
                         /\ data' = [data EXCEPT ![i] = add_data(@, l[i], "RECEIVE_OUT")]
                         /\ calls' = rest
                    ELSE /\ data' = [data EXCEPT ![i] =
                                add_data(add_data(@, l[i], "RECEIVE_OUT"), l[i], "SEND_OUT")]
                         /\ calls' = Sent(rest, OutCalls(i, m.nid, h,
                                <<other_neighbour(neighbours[i], m.sender)>>))
               ELSE /\ data' = [data EXCEPT ![i] =
                                add_data(add_data(@, l[i], "RECEIVE_OUT"), l[i], "SEND_IN")]
                    /\ calls' = Sent(rest,
                            One(Call("receive_in", m.sender, m.nid, 0, i)))
          ELSE /\ data' = [data EXCEPT ![i] = add_data(@, l[i], "RECEIVE_OUT")]
               /\ calls' = rest
    /\ UNCHANGED <<l, counter, elected, neighbours, killed, threads>>
    /\ UNCHANGED orchVars

\* Hirschberg.receive_in up to the comparison nid == self.id; the own-id
\* branch continues as a thread, the other branch relays at once.
receive_in(m) ==
    /\ m.op = "receive_in"
    /\ daemonUp
    /\ LET i == m.to
           rest == calls (-) One(m)
       IN IF m.nid = ids[i]
          THEN /\ data' = [data EXCEPT ![i] = add_data(@, l[i], "RECEIVE_IN")]
               /\ threads' = threads (+)
                        One([node |-> i, at |-> "load_counter", reg |-> 0])
               /\ calls' = rest
          ELSE /\ threads' = threads
               /\ IF neighbours[i] = << >>
                  THEN /\ data' = [data EXCEPT ![i] = add_data(@, l[i], "RECEIVE_IN")]
                       /\ calls' = rest
                  ELSE /\ data' = [data EXCEPT ![i] =
                                add_data(add_data(@, l[i], "RECEIVE_IN"), l[i], "SEND_IN")]
                       /\ calls' = Sent(rest,
                            One(Call("receive_in",
                                     other_neighbour(neighbours[i], m.sender),
                                     m.nid, 0, i)))
    /\ UNCHANGED <<l, counter, elected, neighbours, killed>>
    /\ UNCHANGED orchVars

----------------------------------------------------------------------------
(* The own-id branch of receive_in, one shared access per step *)

Moved(t, at, reg) ==
    (threads (-) One(t)) (+) One([node |-> t.node, at |-> at, reg |-> reg])

Ended(t) == threads (-) One(t)

\* self.counter += 1, the read (AttributeError before run has set it)
LoadCounter(t) ==
    /\ t.at = "load_counter"
    /\ threads' = IF counter[t.node] = -1 THEN Ended(t)
                  ELSE Moved(t, "store_counter", counter[t.node])
    /\ UNCHANGED <<calls>>
    /\ UNCHANGED nodeVars
    /\ UNCHANGED orchVars

\* self.counter += 1, the write
StoreCounter(t) ==
    /\ t.at = "store_counter"
    /\ counter' = [counter EXCEPT ![t.node] = t.reg + 1]
    /\ threads' = Moved(t, "test_counter", 0)
    /\ UNCHANGED <<l, elected, neighbours, data, killed, calls>>
    /\ UNCHANGED orchVars

\* if self.counter == 2
TestCounter(t) ==
    /\ t.at = "test_counter"
    /\ threads' = IF counter[t.node] = 2 THEN Moved(t, "test_round", 0)
                  ELSE Ended(t)
    /\ UNCHANGED <<calls>>
    /\ UNCHANGED nodeVars
    /\ UNCHANGED orchVars

\* if 2**self.l + 1 >= self.number_of_nodes
TestRound(t) ==
    /\ t.at = "test_round"
    /\ threads' = IF CoversRing(l[t.node]) THEN Moved(t, "set_elected", 0)
                  ELSE Moved(t, "next_load_l", 0)
    /\ UNCHANGED <<calls>>
    /\ UNCHANGED nodeVars
    /\ UNCHANGED orchVars

\* self._elected = True
SetElected(t) ==
    /\ t.at = "set_elected"
    /\ elected' = [elected EXCEPT ![t.node] = TRUE]
    /\ threads' = Moved(t, "sel_load_l", 0)
    /\ UNCHANGED <<l, counter, neighbours, data, killed, calls>>
    /\ UNCHANGED orchVars

\* self.l += 1, the read (either branch)
LoadRound(t) ==
    /\ t.at \in {"sel_load_l", "next_load_l"}
    /\ threads' = Moved(t, IF t.at = "sel_load_l" THEN "sel_store_l"
                           ELSE "next_store_l", l[t.node])
    /\ UNCHANGED <<calls>>
    /\ UNCHANGED nodeVars
    /\ UNCHANGED orchVars

\* self.l += 1, the write (either branch)
StoreRound(t) ==
    /\ t.at \in {"sel_store_l", "next_store_l"}
    /\ l' = [l EXCEPT ![t.node] = t.reg + 1]
    /\ threads' = Moved(t, IF t.at = "sel_store_l" THEN "sel_record"
                           ELSE "next_reset", 0)
    /\ UNCHANGED <<counter, elected, neighbours, data, killed, calls>>
    /\ UNCHANGED orchVars

\* self.add_data(state=State.SELECTED)
RecordSelected(t) ==
    /\ t.at = "sel_record"
    /\ data' = [data EXCEPT ![t.node] = add_data(@, l[t.node], "SELECTED")]
    /\ threads' = Ended(t)
    /\ UNCHANGED <<l, counter, elected, neighbours, killed, calls>>
    /\ UNCHANGED orchVars

\* self.counter = 0
ResetCounter(t) ==
    /\ t.at = "next_reset"
    /\ counter' = [counter EXCEPT ![t.node] = 0]
    /\ threads' = Moved(t, "next_send", 0)
    /\ UNCHANGED <<l, elected, neighbours, data, killed, calls>>
    /\ UNCHANGED orchVars

\* self.send_out(self.id, 2 ** (self.l - 1), self._neighbours)
SendNextRound(t) ==
    /\ t.at = "next_send"
    /\ LET i == t.node IN
        /\ data' = [data EXCEPT ![i] = add_data(@, l[i], "SEND_OUT")]
        /\ calls' = Sent(calls, OutCalls(i, ids[i], Reach(l[i]), neighbours[i]))
    /\ threads' = Ended(t)
    /\ UNCHANGED <<l, counter, elected, neighbours, killed>>
    /\ UNCHANGED orchVars

----------------------------------------------------------------------------
Orchestrator ==
    \/ OrchBoot
    \/ OrchGenIds
    \/ OrchCreate
    \/ OrchWire
    \/ OrchStart
    \/ OrchFindMax
    \/ OrchPoll
    \/ OrchCollect
    \/ OrchShutdown
    \/ OrchExcept

Handler(m) ==
    \/ add_neighbour(m)
    \/ start(m)
    \/ stop(m)
    \/ receive_out(m)
    \/ receive_in(m)

Step(t) ==
    \/ LoadCounter(t)
    \/ StoreCounter(t)
    \/ TestCounter(t)
    \/ TestRound(t)
    \/ SetElected(t)
    \/ LoadRound(t)
    \/ StoreRound(t)
    \/ RecordSelected(t)
    \/ ResetCounter(t)
    \/ SendNextRound(t)

\* The program under every schedule.
Next ==
    \/ Orchestrator
    \/ \E m \in BagToSet(calls) : Handler(m)
    \/ \E t \in BagToSet(threads) : Step(t)

Program == Init /\ [][Next]_vars

----------------------------------------------------------------------------
(* Schedules *)

\* A fixed order of the calls in flight: add_neighbour in the order the
\* wiring loop makes them, then start, stop, receive_in, and receive_out
\* by increasing hop count.
Rank(op) ==
    CASE op = "add_neighbour" -> 0
      [] op = "start" -> 1
      [] op = "stop" -> 2
      [] op = "receive_in" -> 3
      [] op = "receive_out" -> 4

Slot(m) ==
    IF m.op = "add_neighbour"
    THEN IF m.sender = Right(m.to) THEN 0 ELSE 1
    ELSE m.sender + 1

Key(m) == ((Rank(m.op) * 10 + m.h) * 10 + m.to) * 1000 + m.nid * 10 + Slot(m)

Due(m) == \A o \in BagToSet(calls) : Key(m) <= Key(o)

Wiring == {m \in BagToSet(calls) : m.op = "add_neighbour"}

Quiet == calls = EmptyBag /\ threads = EmptyBag

\* Spec: the wiring is executed in order and before the start loop, the
\* stop calls are executed in the order they were made, the ids drawn are
\* pairwise distinct, everything else is scheduled freely.
NextWired ==
    \/ OrchBoot
    \/ GenIds(DistinctDraws(number_of_nodes))
    \/ OrchCreate
    \/ OrchWire
    \/ Wiring = {} /\ OrchStart
    \/ OrchFindMax
    \/ OrchPoll
    \/ OrchCollect
    \/ OrchShutdown
    \/ OrchExcept
    \/ \E m \in BagToSet(calls) :
            (m.op \in {"add_neighbour", "stop"} => Due(m)) /\ Handler(m)
    \/ \E t \in BagToSet(threads) : Step(t)

Spec == Init /\ [][NextWired]_vars

\* SpecOneway: add_neighbour and start are scheduled freely; a message is
\* executed when no other call is due before it and no thread is running.
NextOneway ==
    \/ OrchBoot
    \/ GenIds(DistinctDraws(number_of_nodes))
    \/ OrchCreate
    \/ OrchWire
    \/ OrchStart
    \/ OrchFindMax
    \/ Quiet /\ OrchPoll
    \/ OrchCollect
    \/ OrchShutdown
    \/ OrchExcept
    \/ \E m \in BagToSet(calls) :
            /\ m.op \notin {"add_neighbour", "start"} => Due(m) /\ threads = EmptyBag
            /\ Handler(m)
    \/ \E t \in BagToSet(threads) : Step(t)

SpecOneway == Init /\ [][NextOneway]_vars

\* The ids of a ring of nine, and of a ring of four, in ring order.
Ring9 == <<3, 4, 7, 1, 9, 2, 6, 5, 8>>
Ring4 == <<1, 2, 4, 3>>

AsIds(ring) == [i \in 0 .. (Len(ring) - 1) |-> ring[i + 1]]

\* SpecLockstep: one call at a time in the fixed order, a thread runs to
\* its end before the next call, the poll comes last.  Rings of up to
\* MaxNodes nodes with any ids drawn, the ring of four and the ring of nine.
LockstepIds ==
    CASE number_of_nodes = Len(Ring9) -> {AsIds(Ring9)}
      [] number_of_nodes = Len(Ring4) -> {AsIds(Ring4)}
      [] OTHER -> Draws(number_of_nodes)

NextLockstep ==
    \/ OrchBoot
    \/ GenIds(LockstepIds)
    \/ OrchCreate
    \/ OrchWire
    \/ OrchStart
    \/ OrchFindMax
    \/ Quiet /\ OrchPoll
    \/ OrchCollect
    \/ OrchShutdown
    \/ OrchExcept
    \/ \E m \in BagToSet(calls) : threads = EmptyBag /\ Due(m) /\ Handler(m)
    \/ \E t \in BagToSet(threads) : Step(t)

SpecLockstep ==
    Entered((0 .. MaxNodes) \cup {Len(Ring4), Len(Ring9)})
        /\ [][NextLockstep]_vars

\* SpecRace: the ring of four, the calls in the fixed order, the threads
\* of receive_in scheduled freely beside them.
NextRace ==
    \/ OrchBoot
    \/ GenIds({AsIds(Ring4)})
    \/ OrchCreate
    \/ OrchWire
    \/ OrchStart
    \/ OrchFindMax
    \/ Quiet /\ OrchPoll
    \/ OrchCollect
    \/ OrchShutdown
    \/ \E m \in BagToSet(calls) : Due(m) /\ Handler(m)
    \/ \E t \in BagToSet(threads) : Step(t)

SpecRace == Entered({Len(Ring4)}) /\ [][NextRace]_vars

\* A client of the exposed start method calls it on a node that is running:
\* at most MaxRestarts times per node.
ClientStart ==
    \E i \in DOMAIN killed :
        /\ killed[i] # "unset"
        /\ daemonUp
        /\ data[i].count["IDLE"]
             + CopiesIn(Call("start", i, 0, 0, -1), calls) <= MaxRestarts
        /\ calls' = calls (+) One(Call("start", i, 0, 0, -1))
        /\ UNCHANGED <<threads>>
        /\ UNCHANGED nodeVars
        /\ UNCHANGED orchVars

\* SpecRestart: the fixed order on rings of MaxNodes nodes, with the client.
NextRestart ==
    \/ OrchBoot
    \/ GenIds(DistinctDraws(number_of_nodes))
    \/ OrchCreate
    \/ OrchWire
    \/ OrchStart
    \/ OrchFindMax
    \/ Quiet /\ OrchPoll
    \/ OrchCollect
    \/ OrchShutdown
    \/ ClientStart
    \/ \E m \in BagToSet(calls) : threads = EmptyBag /\ Due(m) /\ Handler(m)
    \/ \E t \in BagToSet(threads) : Step(t)

SpecRestart == Entered({MaxNodes}) /\ [][NextRestart]_vars

\* The call m is an add_neighbour call to the lowest node that still waits
\* for one, or the first in the fixed order among the other calls.
DueBesideWiring(m) ==
    IF m.op = "add_neighbour"
    THEN \A o \in Wiring : m.to <= o.to
    ELSE \A o \in BagToSet(calls) \ Wiring : Key(m) <= Key(o)

\* SpecLateWiring: the ring of four in lockstep, but the add_neighbour
\* calls, being oneway, are executed node by node, the two of a node in
\* either order, at any time beside the start calls and the messages.
NextLateWiring ==
    \/ OrchBoot
    \/ GenIds({AsIds(Ring4)})
    \/ OrchCreate
    \/ OrchWire
    \/ OrchStart
    \/ OrchFindMax
    \/ Quiet /\ OrchPoll
    \/ OrchCollect
    \/ OrchShutdown
    \/ \E m \in BagToSet(calls) :
            threads = EmptyBag /\ DueBesideWiring(m) /\ Handler(m)
    \/ \E t \in BagToSet(threads) : Step(t)

SpecLateWiring == Entered({Len(Ring4)}) /\ [][NextLateWiring]_vars

\* The names a client gives to the processes it creates.
ClientNames == {PyInt(0), PyInt(1), PyStr("0"), PyStr("1"), PyStr("p1")}

\* A client creates a Process with the default prefix and registers it, as
\* test_process_creation does.
ClientRegister ==
    /\ nsUp
    /\ daemonUp
    /\ Cardinality(DOMAIN objects) < MaxObjects
    /\ \E name \in ClientNames : register(Process(name, DefaultPrefix))
    /\ UNCHANGED <<number_of_nodes, ids, pc, idx, nsUp, daemonUp, df>>
    /\ UNCHANGED <<calls, threads>>
    /\ UNCHANGED nodeVars

\* SpecDirectory: the daemons are started and a client registers processes.
NextDirectory ==
    \/ OrchBoot
    \/ ClientRegister

SpecDirectory == Entered({0}) /\ [][NextDirectory]_vars

----------------------------------------------------------------------------
(* Properties *)

DistinctIds == \A i, j \in DOMAIN ids : i # j => ids[i] # ids[j]

\* A ring as the election assumes it: at least three nodes, distinct ids.
ProperRing == number_of_nodes >= 3 /\ DistinctIds

RECURSIVE SelectedRows(_)
SelectedRows(rows) ==
    IF rows = << >> THEN 0
    ELSE rows[Len(rows)].selected + SelectedRows(SubSeq(rows, 1, Len(rows) - 1))

\* C1 (uniqueness): on a ring of at least three nodes with pairwise distinct
\* ids, no two distinct nodes are both elected.
C1_AtMostOneElected ==
    ProperRing =>
        \A i, j \in DOMAIN elected : elected[i] /\ elected[j] => i = j

\* C2 (correctness): on such a ring, a node that is elected holds the
\* largest id of the ring.
C2_ElectedIsMax ==
    ProperRing =>
        \A i \in DOMAIN elected :
            elected[i] => \A j \in DOMAIN ids : ids[j] <= ids[i]

\* C3 (termination): on such a ring the node with the largest id is
\* eventually elected, so the poll ends.  A state in which the poll waits
\* while no call is in flight and no thread runs can never be left:
\* termination requires that in every such state the flag is already set.
C3_PollNeverStuck ==
    (ProperRing /\ pc = "poll" /\ Quiet) => elected[MaxIdx]

\* C4: on such a ring no node records SELECTED twice, and the merged trace
\* of a run that has returned holds exactly one SELECTED row.
C4_OneSelectedRow ==
    ProperRing =>
        /\ \A i \in DOMAIN data : data[i].count["SELECTED"] <= 1
        /\ pc = "done" => SelectedRows(df) = 1

\* C5: the election ids generated for a run are pairwise distinct (stated
\* for the ring sizes the election is meant for).
C5_IdsDistinct == number_of_nodes >= 3 => DistinctIds

\* C6: with fewer than three nodes the run fails before any node is
\* created, wired or started.
C6_SmallRingRejected ==
    number_of_nodes < 3 => DOMAIN l = {} /\ calls = EmptyBag

\* C7: on a ring of at least three nodes, once any node has been started
\* every node i holds exactly the two neighbours (i-1) mod n and (i+1) mod n.
C7_WiredWhenStarted ==
    (number_of_nodes >= 3 /\ \E i \in DOMAIN killed : killed[i] # "unset") =>
        \A j \in DOMAIN neighbours :
            /\ Len(neighbours[j]) = 2
            /\ Range(neighbours[j]) = {Right(j), Left(j)}

\* C8: a second start call on a started node has no effect: run is not
\* executed again, so no node records IDLE twice and no node falls back to
\* an earlier round.
C8_StartOnce ==
    [][\A i \in DOMAIN data :
            /\ data'[i].count["IDLE"] <= 1
            /\ l'[i] >= l[i]]_vars

\* The number of messages a node has accepted: receive_out and receive_in
\* record one row each as they begin.
Received(d) == d.count["RECEIVE_OUT"] + d.count["RECEIVE_IN"]

\* C9: on a ring of at least three nodes, once the orchestrator has called
\* stop on every node no node accepts a further message, and a node that has
\* executed stop accepts none (handling already in flight may finish).
C9_QuietAfterStop ==
    [][number_of_nodes >= 3 =>
          \A i \in DOMAIN killed :
              (killed[i] = "yes" \/ pc \in {"shutdown", "done"}) =>
                  Received(data'[i]) = Received(data[i])]_vars

\* C10: the round of a node never decreases, and the rounds of the rows it
\* records are non-decreasing in recording order.
C10_RoundMonotone ==
    [][\A i \in DOMAIN l : l'[i] >= l[i] /\ data'[i].sorted]_vars

\* The node has been elected and has recorded SELECTED.
Selected(i) == elected[i] /\ data[i].count["SELECTED"] >= 1

Sends(d) == d.count["SEND_OUT"] + d.count["SEND_IN"]

\* C12: on a ring of at least three nodes with distinct ids, a node that is
\* elected and has recorded SELECTED sends no Out and no In afterwards.
C12_SelectedIsTerminal ==
    [][ProperRing =>
          \A i \in DOMAIN elected :
              Selected(i) => Sends(data'[i]) = Sends(data[i])]_vars

\* C13: whenever run_hirschberg_sinclair_algorithm, called for a ring of at
\* least three nodes, has ended, by returning the trace or by raising, the
\* node daemon and the name-server daemon are both shut down.
C13_TornDownAtEnd ==
    (number_of_nodes >= 3 /\ pc \in {"done", "raised"}) => ~daemonUp /\ ~nsUp

Delivered(m) == CopiesIn(m, calls') < CopiesIn(m, calls)

\* C15: a receive_out whose candidate id is not larger than the id of the
\* receiver is dropped: the step sends nothing, leaves the round, the counter
\* and the elected flag of every node as they were, and appends one
\* RECEIVE_OUT row, stamped with the receiver's round, to the receiver's trace.
C15_SmallerIdDropped ==
    [][\A m \in BagToSet(calls) :
        (m.op = "receive_out" /\ m.nid <= ids[m.to] /\ Delivered(m))
            => /\ calls' = calls (-) One(m)
               /\ l' = l
               /\ counter' = counter
               /\ elected' = elected
               /\ data' = [data EXCEPT ![m.to] =
                                add_data(@, l[m.to], "RECEIVE_OUT")]]_vars

\* C15 witness: on a proper ring the node with the largest id has received
\* the probes of both neighbours, all of which it drops, and has answered
\* none.
C15_Witness ==
    /\ ProperRing
    /\ \E i \in DOMAIN data :
            /\ \A j \in DOMAIN ids : ids[j] <= ids[i]
            /\ data[i].count["RECEIVE_OUT"] >= 2
            /\ data[i].count["SEND_IN"] = 0

\* The neighbour of node i on the ring that is not the sender.
NotTheSender(i, sender) == IF sender = Left(i) THEN Right(i) ELSE Left(i)

\* C16: on a ring of three or more, a receive_out whose candidate id is
\* larger than the id of the receiver sends exactly one message and changes
\* no round, counter or elected flag: with h the hops less the receiver's
\* round, an Out with h to the neighbour that is not the sender when h > 0,
\* and an In to the sender otherwise.
C16_LargerIdOneMessage ==
    [][\A m \in BagToSet(calls) :
        (/\ number_of_nodes >= 3
         /\ m.op = "receive_out"
         /\ m.nid > ids[m.to]
         /\ Delivered(m))
            => /\ calls' = (calls (-) One(m)) (+) One(
                    IF m.h - l[m.to] > 0
                    THEN Call("receive_out", NotTheSender(m.to, m.sender),
                              m.nid, m.h - l[m.to], m.to)
                    ELSE Call("receive_in", m.sender, m.nid, 0, m.to))
               /\ l' = l
               /\ counter' = counter
               /\ elected' = elected]_vars

\* C17: on a ring of three or more, a receive_in that carries another id
\* than the receiver's is relayed: the step sends exactly one In with that
\* id, to the neighbour that is not the sender, and changes no round,
\* counter or elected flag.
C17_ForeignInRelayed ==
    [][\A m \in BagToSet(calls) :
        (/\ number_of_nodes >= 3
         /\ m.op = "receive_in"
         /\ m.nid # ids[m.to]
         /\ Delivered(m))
            => /\ calls' = (calls (-) One(m)) (+) One(
                    Call("receive_in", NotTheSender(m.to, m.sender),
                         m.nid, 0, m.to))
               /\ l' = l
               /\ counter' = counter
               /\ elected' = elected]_vars

\* The executions of receive_in on node i that have found counter == 2 and
\* are in the branch it guards.
InBranch(i) ==
    {t \in BagToSet(threads) :
        t.node = i /\ t.at \notin {"load_counter", "store_counter", "test_counter"}}

\* C18: the handlers of a node run one at a time, so that at no moment two
\* executions of receive_in on one node are both inside the branch that the
\* test counter == 2 guards.
C18_OneInTheBranch ==
    \A i \in DOMAIN l :
        /\ Cardinality(InBranch(i)) <= 1
        /\ \A t \in InBranch(i) : CopiesIn(t, threads) = 1

\* The nodes other than i that are at most d hops from i on the ring.
Within(i, d) ==
    {j \in Names \ {i} :
        \E k \in 1 .. d : j = (i + k) % number_of_nodes
                            \/ j = (i + number_of_nodes * d - k) % number_of_nodes}

\* C19: on a proper ring, a node that finds its counter at 2 in round r has
\* an id larger than the id of every other node within reach of the probes
\* of round r.  The reach taken here is the hop budget of the round,
\* 2^(r-1), which the 2^r hops of the claim include.
C19_LocalMaximum ==
    ProperRing =>
        \A t \in BagToSet(threads) :
            t.at = "test_round" =>
                \A j \in Within(t.node, Reach(l[t.node])) :
                    ids[j] < ids[t.node]

\* C20: on a proper ring the counter of every node that has been started is
\* 0, 1 or 2.
C20_CounterAtMostTwo ==
    ProperRing =>
        \A i \in DOMAIN counter :
            killed[i] # "unset" => counter[i] \in {0, 1, 2}

\* C21: on a proper ring the first row of the trace of every node is the IDLE
\* row of its run: a node whose run has not yet recorded IDLE has recorded
\* nothing, so no RECEIVE_OUT or RECEIVE_IN row and no row of round 0 comes
\* before it.
C21_IdleRecordedFirst ==
    ProperRing =>
        \A i \in DOMAIN data :
            data[i].count["IDLE"] = 0 => Rows(data[i]) = 0

\* The node that originates the probes carrying the id nid.
Origin(nid) == CHOOSE o \in Names : ids[o] = nid

\* The ring edges the Out m has crossed when it arrives: the distance from
\* its origin to its target in the direction it travels, a full circle when
\* it is back at its origin.
Crossed(m) ==
    IF m.sender = Right(m.to)
    THEN ((m.to + number_of_nodes - Origin(m.nid) - 1) % number_of_nodes) + 1
    ELSE ((Origin(m.nid) + number_of_nodes - m.to - 1) % number_of_nodes) + 1

\* C22: on a proper ring every Out in flight carries at least one hop and
\* has crossed no more edges than the hop budget of its origin, which is at
\* most the budget 2^(round-1) of the round the origin is in now.
C22_HopBudgetRespected ==
    ProperRing =>
        \A m \in BagToSet(calls) :
            m.op = "receive_out" =>
                /\ m.h >= 1
                /\ l[Origin(m.nid)] >= 1
                /\ Crossed(m) <= Reach(l[Origin(m.nid)])

\* Node i is wired to both neighbours and has never sent an In: every
\* RECEIVE_IN row of its trace is then an In that carried its own id, since
\* the relay of any other In records a SEND_IN row.
OnlyOwnIns(i) ==
    Len(neighbours[i]) = 2 /\ data[i].count["SEND_IN"] = 0

\* No execution of receive_in is under way on node i.
AtRest(i) == \A t \in BagToSet(threads) : t.node # i

\* C23: on a proper ring, for every started node that is not elected and is
\* between two handlers, the Ins with its own id that it has handled number
\* 2 * (round - 1) + counter.  Stated of the nodes whose RECEIVE_IN rows
\* count exactly those Ins.
C23_RoundAccounting ==
    ProperRing =>
        \A i \in DOMAIN data :
            (/\ killed[i] # "unset"
             /\ ~elected[i]
             /\ AtRest(i)
             /\ OnlyOwnIns(i))
                => data[i].count["RECEIVE_IN"] = 2 * (l[i] - 1) + counter[i]

====
